---- MODULE Spec2Model ----
(***************************************************************************)
(* Model of rust-grep (src/src/main.rs): a line-oriented literal search.   *)
(*                                                                         *)
(* A string is a sequence of characters; a character is a TLA+ string      *)
(* naming one Unicode scalar value.  Rust indexes a str by BYTE offset     *)
(* into its UTF-8 encoding, so every character carries its encoded width   *)
(* and every slice is checked against the character boundaries, as         *)
(* str::index does.                                                        *)
(*   "a" "b" "f" "d" ... one-byte ASCII characters                         *)
(*   "A"       U+0041, lower-cases to "a"                                  *)
(*   "KELVIN"  U+212A KELVIN SIGN, 3 bytes, lower-cases to "k" (1 byte)    *)
(*   "IDOT"    U+0130 LATIN CAPITAL I WITH DOT ABOVE, 2 bytes,             *)
(*             lower-cases to "i" followed by "DOT"                        *)
(*   "DOT"     U+0307 COMBINING DOT ABOVE, 2 bytes                         *)
(***************************************************************************)
EXTENDS Integers, Sequences, FiniteSets, TLC

VARIABLES args, fs, pc, cfg, ti, files, fi, stdout, stderr, fsops

vars == <<args, fs, pc, cfg, ti, files, fi, stdout, stderr, fsops>>

(* ---------------------------- bounds ----------------------------------- *)
MaxArgs == 3
MaxLines == 2

(* ---------------------------- strings ---------------------------------- *)
Width(c) ==
    CASE c = "KELVIN" -> 3
      [] c = "IDOT" -> 2
      [] c = "DOT" -> 2
      [] OTHER -> 1

LowerChar(c) ==
    CASE c = "A" -> <<"a">>
      [] c = "KELVIN" -> <<"k">>
      [] c = "IDOT" -> <<"i", "DOT">>
      [] OTHER -> <<c>>

RECURSIVE to_lowercase(_)
to_lowercase(s) ==
    IF s = <<>> THEN <<>> ELSE LowerChar(Head(s)) \o to_lowercase(Tail(s))

RECURSIVE ByteLen(_)
ByteLen(s) == IF s = <<>> THEN 0 ELSE Width(Head(s)) + ByteLen(Tail(s))

\* byte offset at which the k-th character of s starts (k = Len(s)+1: the end)
CharStart(s, k) == ByteLen(SubSeq(s, 1, k - 1))

is_char_boundary(s, b) == \E k \in 1..(Len(s) + 1) : CharStart(s, k) = b

CharAt(s, b) == CHOOSE k \in 1..(Len(s) + 1) : CharStart(s, k) = b

\* &s[a..b]: defined only when a <= b and both are character boundaries of s
SliceOk(s, a, b) == a <= b /\ is_char_boundary(s, a) /\ is_char_boundary(s, b)

Slice(s, a, b) == SubSeq(s, CharAt(s, a), CharAt(s, b) - 1)

StartsAt(h, n, k) ==
    /\ k + Len(n) - 1 <= Len(h)
    /\ \A j \in 1..Len(n) : h[k + j - 1] = n[j]

\* h[i..].find(n): byte offset, relative to i, of the first occurrence of n in
\* h at or after byte i (i a boundary of h); -1 for None
RECURSIVE FindChar(_, _, _)
FindChar(h, n, k) ==
    IF k + Len(n) - 1 > Len(h) THEN 0
    ELSE IF StartsAt(h, n, k) THEN k
    ELSE FindChar(h, n, k + 1)

find(h, i, n) ==
    LET k == FindChar(h, n, CharAt(h, i))
    IN  IF k = 0 THEN -1 ELSE CharStart(h, k) - i

str_contains(h, n) == FindChar(h, n, 1) # 0

RED == <<"ESC[31m">>
RESET == <<"ESC[0m">>

red(s) == RED \o s \o RESET

DigitChar == <<"0", "1", "2", "3", "4", "5", "6", "7", "8", "9">>

RECURSIVE FormatNat(_)
FormatNat(n) ==
    IF n < 10 THEN <<DigitChar[n + 1]>>
    ELSE FormatNat(n \div 10) \o <<DigitChar[(n % 10) + 1]>>

(* ---------------------------- contains / highlight --------------------- *)
contains(line, pattern, case_insensitive) ==
    IF case_insensitive THEN str_contains(to_lowercase(line), pattern)
    ELSE str_contains(line, pattern)

\* the while-let loop of highlight; a slice off a boundary panics
RECURSIVE HighlightLoop(_, _, _, _, _)
HighlightLoop(line, haystack, needle, i, result) ==
    LET pos == find(haystack, i, needle)
        start == i + pos
        end == start + ByteLen(needle)
    IN  IF pos = -1
        THEN IF SliceOk(line, i, ByteLen(line))
             THEN [panic |-> FALSE, text |-> result \o Slice(line, i, ByteLen(line))]
             ELSE [panic |-> TRUE, text |-> result]
        ELSE IF ~SliceOk(line, i, start) \/ ~SliceOk(line, start, end)
             THEN [panic |-> TRUE, text |-> result]
             ELSE HighlightLoop(line, haystack, needle, end,
                      result \o Slice(line, i, start) \o red(Slice(line, start, end)))

highlight(line, pattern, case_insensitive) ==
    IF pattern = <<>> THEN [panic |-> FALSE, text |-> line]
    ELSE LET haystack == IF case_insensitive THEN to_lowercase(line) ELSE line
             needle == IF case_insensitive THEN to_lowercase(pattern) ELSE pattern
         IN  HighlightLoop(line, haystack, needle, 0, <<>>)

(* ---------------------------- Config / parse_args ----------------------- *)
DefaultConfig ==
    [case_insensitive |-> FALSE, show_line_numbers |-> FALSE,
     invert_match |-> FALSE, recursive |-> FALSE, show_filenames |-> FALSE,
     colored |-> FALSE, help |-> FALSE, pattern |-> <<>>, targets |-> <<>>]

HELP == <<"Usage: grep [OPTIONS] <pattern> <files...> ...">>

T_h == <<"-", "h">>
T_help == <<"-", "-", "h", "e", "l", "p">>

\* the characters the match of lines 87-96 has an arm for
HasArm(ch) == ch \in {"i", "n", "v", "r", "f", "c", "h", "-"}

FlagArm(c, ch) ==
    CASE ch = "i" -> [c EXCEPT !.case_insensitive = TRUE]
      [] ch = "n" -> [c EXCEPT !.show_line_numbers = TRUE]
      [] ch = "v" -> [c EXCEPT !.invert_match = TRUE]
      [] ch = "r" -> [c EXCEPT !.recursive = TRUE]
      [] ch = "f" -> [c EXCEPT !.show_filenames = TRUE]
      [] ch = "c" -> [c EXCEPT !.colored = TRUE]
      [] ch = "h" -> [c EXCEPT !.help = TRUE]
      [] ch = "-" -> c

IsCluster(a) == a # <<>> /\ Head(a) = "-" /\ ByteLen(a) >= 2

\* for ch in a.chars().skip(1) { match ch {...} }: the match has no catch-all
\* arm, so a character outside HasArm has no arm to take and no Config comes
\* out of the call (ok = FALSE)
RECURSIVE ParseCluster(_, _)
ParseCluster(c, chars) ==
    IF chars = <<>> THEN [ok |-> TRUE, cfg |-> c]
    ELSE IF ~HasArm(Head(chars)) THEN [ok |-> FALSE, cfg |-> c]
    ELSE ParseCluster(FlagArm(c, Head(chars)), Tail(chars))

RECURSIVE ParseLoop(_, _, _)
ParseLoop(c, operands, rest) ==
    IF rest = <<>> THEN [ok |-> TRUE, cfg |-> c, operands |-> operands]
    ELSE LET a == Head(rest)
         IN  IF a = T_h \/ a = T_help
             THEN ParseLoop([c EXCEPT !.help = TRUE], operands, Tail(rest))
             ELSE IF IsCluster(a)
             THEN LET r == ParseCluster(c, Tail(a))
                  IN  IF r.ok THEN ParseLoop(r.cfg, operands, Tail(rest))
                      ELSE [ok |-> FALSE, cfg |-> r.cfg, operands |-> operands]
             ELSE ParseLoop(c, Append(operands, a), Tail(rest))

parse_args(as) ==
    LET r == ParseLoop(DefaultConfig, <<>>, as)
    IN  IF ~r.ok THEN [ok |-> FALSE, cfg |-> DefaultConfig]
        ELSE IF r.operands # <<>>
        THEN [ok |-> TRUE,
              cfg |-> [r.cfg EXCEPT !.pattern = r.operands[1],
                                    !.targets = Tail(r.operands)]]
        ELSE [ok |-> TRUE, cfg |-> r.cfg]

UsageCondNoHelp(c) == c.pattern = <<>> \/ c.targets = <<>>

UsageCondNoPattern(c) == c.help \/ c.targets = <<>>

UsageCond(c) == c.help \/ c.pattern = <<>> \/ c.targets = <<>>

(* ---------------------------- file system ------------------------------ *)
FileNode(lines, err) ==
    [kind |-> "file", lines |-> lines, err |-> err, names |-> {}, readable |-> TRUE]

DirNode(names, readable) ==
    [kind |-> "dir", lines |-> <<>>, err |-> "none", names |-> names,
     readable |-> readable]

Missing ==
    [kind |-> "missing", lines |-> <<>>, err |-> "none", names |-> {},
     readable |-> FALSE]

Lookup(f, p) == IF p \in DOMAIN f THEN f[p] ELSE Missing

Join(p, name) == p \o <<"/">> \o name

is_dir(f, p) == Lookup(f, p).kind = "dir"

\* WalkDir::new(p).into_iter(): depth-first, a directory before its contents,
\* the contents in the order the file system enumerates them (any order); a
\* directory that cannot be read yields an Err item
RECURSIVE WalkDir(_, _), WalkChildren(_, _, _)
WalkDir(f, p) ==
    LET n == Lookup(f, p)
        self == [path |-> p, is_file |-> n.kind = "file", ok |-> TRUE]
    IN  IF n.kind # "dir" THEN {<<self>>}
        ELSE IF ~n.readable THEN {<<self, [self EXCEPT !.ok = FALSE]>>}
        ELSE {<<self>> \o w : w \in WalkChildren(f, p, n.names)}

WalkChildren(f, p, names) ==
    IF names = {} THEN {<<>>}
    ELSE UNION {{a \o b : a \in WalkDir(f, Join(p, nm)),
                          b \in WalkChildren(f, p, names \ {nm})} : nm \in names}

ResultOk(e) == e.ok

KeepEveryEntry(e) == TRUE

IsFileEntry(e) == e.is_file

RECURSIVE EntryPaths(_)
EntryPaths(w) ==
    IF w = <<>> THEN <<>> ELSE <<Head(w).path>> \o EntryPaths(Tail(w))

WalkedFiles(w) ==
    EntryPaths(SelectSeq(SelectSeq(w, ResultOk), IsFileEntry))

(* ---------------------------- search_file ------------------------------ *)
SEP == <<":", " ">>

LineNumberFromZero(idx) == idx

LineNumber(idx) == idx + 1

HighlightWithoutColorFlag(c, is_match) == is_match /\ ~c.invert_match

ShouldHighlight(c, is_match) == c.colored /\ is_match /\ ~c.invert_match

\* the body of the for loop of search_file for the line at 0-based idx:
\* emit = FALSE for `continue`, panic = TRUE when highlight panics before println!
LineOut(path, idx, line, pattern, c) ==
    LET is_match == contains(line, pattern, c.case_insensitive)
        pass == IF c.invert_match THEN ~is_match ELSE is_match
        out1 == IF c.show_filenames THEN path \o SEP ELSE <<>>
        out2 == IF c.show_line_numbers
                THEN out1 \o FormatNat(LineNumber(idx)) \o SEP ELSE out1
        h == highlight(line, pattern, c.case_insensitive)
    IN  IF ~pass THEN [emit |-> FALSE, panic |-> FALSE, text |-> <<>>]
        ELSE IF ShouldHighlight(c, is_match)
        THEN [emit |-> ~h.panic, panic |-> h.panic, text |-> out2 \o h.text]
        ELSE [emit |-> TRUE, panic |-> FALSE, text |-> out2 \o line]

RECURSIVE SearchLines(_, _, _, _, _, _)
SearchLines(path, lines, idx, pattern, c, out) ==
    IF idx >= Len(lines) THEN [out |-> out, panic |-> FALSE]
    ELSE LET r == LineOut(path, idx, lines[idx + 1], pattern, c)
         IN  IF r.panic THEN [out |-> out, panic |-> TRUE]
             ELSE SearchLines(path, lines, idx + 1, pattern, c,
                              IF r.emit THEN Append(out, r.text) ELSE out)

\* the io::Error a node yields: at File::open, or from reader.lines()
OpenError(n) ==
    CASE n.kind = "missing" -> "No such file or directory (os error 2)"
      [] n.kind = "file" /\ n.err = "open" -> "Permission denied (os error 13)"
      [] OTHER -> "none"

ReadError(n) ==
    CASE n.kind = "dir" -> "Is a directory (os error 21)"
      [] n.kind = "file" /\ n.err = "read" -> "stream did not contain valid UTF-8"
      [] OTHER -> "none"

search_file(f, path, c) ==
    LET n == Lookup(f, path)
        pattern == IF c.case_insensitive THEN to_lowercase(c.pattern) ELSE c.pattern
        r == SearchLines(path, n.lines, 0, pattern, c, <<>>)
    IN  IF OpenError(n) # "none"
        THEN [out |-> <<>>, status |-> "err", reason |-> OpenError(n)]
        ELSE IF r.panic THEN [out |-> r.out, status |-> "panic", reason |-> "none"]
        ELSE IF ReadError(n) # "none"
        THEN [out |-> r.out, status |-> "err", reason |-> ReadError(n)]
        ELSE [out |-> r.out, status |-> "ok", reason |-> "none"]

FAILED == <<"Failed to read ">>
PANICKED == <<"thread 'main' panicked">>

FailedToRead(path, reason) == FAILED \o path \o SEP \o <<reason>>

(* ---------------------------- main ------------------------------------- *)
FsOp(op, p) == [op |-> op, path |-> p]

\* lines 34-36: parse_args returns Ok(cfg)
ParseArgs ==
    /\ pc = "start"
    /\ parse_args(args).ok
    /\ cfg' = parse_args(args).cfg
    /\ pc' = "parsed"
    /\ UNCHANGED <<args, fs, ti, files, fi, stdout, stderr, fsops>>

\* lines 86-96: a cluster character with no arm in the match; no Config is
\* produced and the run ends without output
ParseArgsNoArm ==
    /\ pc = "start"
    /\ ~parse_args(args).ok
    /\ pc' = "abort"
    /\ UNCHANGED <<args, fs, cfg, ti, files, fi, stdout, stderr, fsops>>

\* lines 43-46
Usage ==
    /\ pc = "parsed"
    /\ UsageCond(cfg)
    /\ stdout' = Append(stdout, HELP)
    /\ pc' = "done"
    /\ UNCHANGED <<args, fs, cfg, ti, files, fi, stderr, fsops>>

\* lines 50-67: one iteration of the loop over cfg.targets
GatherTarget ==
    /\ pc = "parsed"
    /\ ~UsageCond(cfg)
    /\ ti <= Len(cfg.targets)
    /\ LET p == cfg.targets[ti]
           next(fl) == /\ files' = fl
                       /\ ti' = ti + 1
                       /\ pc' = IF ti < Len(cfg.targets) THEN "parsed"
                                ELSE IF fl = <<>> THEN "done" ELSE "scan"
       IN  IF cfg.recursive
           THEN IF is_dir(fs, p)
                THEN \E w \in WalkDir(fs, p) :
                        /\ next(files \o WalkedFiles(w))
                        /\ fsops' = fsops \o <<FsOp("is_dir", p), FsOp("walk", p)>>
                ELSE /\ next(Append(files, p))
                     /\ fsops' = Append(fsops, FsOp("is_dir", p))
           ELSE /\ next(Append(files, p))
                /\ fsops' = fsops
    /\ UNCHANGED <<args, fs, cfg, fi, stdout, stderr>>

\* lines 69-73: one iteration of the loop over files, search_file included
ScanFile ==
    /\ pc = "scan"
    /\ fi <= Len(files)
    /\ LET f == files[fi]
           r == search_file(fs, f, cfg)
       IN  /\ fsops' = Append(fsops, FsOp("open", f))
           /\ stdout' = stdout \o r.out
           /\ stderr' = CASE r.status = "err" ->
                                Append(stderr, FailedToRead(f, r.reason))
                          [] r.status = "panic" -> Append(stderr, PANICKED)
                          [] OTHER -> stderr
           /\ pc' = IF r.status = "panic" THEN "panic"
                    ELSE IF fi < Len(files) THEN "scan" ELSE "done"
    /\ fi' = fi + 1
    /\ UNCHANGED <<args, fs, cfg, ti, files>>

(* ---------------------------- inputs ----------------------------------- *)
Tokens ==
    { T_h, T_help, <<"-", "r">>, <<"-", "r", "i", "c">>, <<"-", "v">>,
      <<"-", "n", "f">>, <<"-", "x">>, <<"-">>, <<>>, <<"a">>, <<"f">>, <<"d">> }

ArgLists == UNION {[1..n -> Tokens] : n \in 0..MaxArgs}

P_f == <<"f">>
P_g == <<"g">>
P_d == <<"d">>

FsTree ==
    (P_f :> FileNode(<< <<"a", "b">>, <<"b">>, <<"A">> >>, "none"))
    @@ (P_d :> DirNode({<<"f">>, <<"e">>}, TRUE))
    @@ (Join(P_d, <<"f">>) :> FileNode(<< <<"KELVIN", "a">>, <<"a">> >>, "none"))
    @@ (Join(P_d, <<"e">>) :> DirNode({<<"g">>}, TRUE))
    @@ (Join(Join(P_d, <<"e">>), <<"g">>) :> FileNode(<< <<"a">> >>, "none"))

FsFaulty ==
    (P_f :> FileNode(<<>>, "open"))
    @@ (<<"a">> :> FileNode(<< <<"a", "a">>, <<"b">> >>, "none"))
    @@ (P_d :> DirNode({<<"f">>, <<"e">>, <<"u">>}, TRUE))
    @@ (Join(P_d, <<"f">>) :> FileNode(<< <<"b">>, <<"a">> >>, "read"))
    @@ (Join(P_d, <<"e">>) :> DirNode({}, TRUE))
    @@ (Join(P_d, <<"u">>) :> DirNode({<<"h">>}, FALSE))
    @@ (Join(Join(P_d, <<"u">>), <<"h">>) :> FileNode(<< <<"a">> >>, "none"))

FsDirNamedF ==
    (P_f :> DirNode({}, TRUE))
    @@ (<<"a">> :> FileNode(<< <<"A">>, <<"a">> >>, "none"))

FileSystems == {FsTree, FsFaulty, FsDirNamedF}

Init ==
    /\ args \in ArgLists
    /\ fs \in FileSystems
    /\ pc = "start"
    /\ cfg = DefaultConfig
    /\ ti = 1
    /\ files = <<>>
    /\ fi = 1
    /\ stdout = <<>>
    /\ stderr = <<>>
    /\ fsops = <<>>

Next == ParseArgs \/ ParseArgsNoArm \/ Usage \/ GatherTarget \/ ScanFile

Spec == Init /\ [][Next]_vars

(* ---------------------------- scanning one varied file ------------------ *)
\* Runs `grep [-flags] <pattern> f g` where f holds up to MaxLines lines drawn
\* from Lines (among them lines whose lower-case form has another byte length)
\* and may fail at open or after its last line; g is a fixed readable file.
Lines ==
    { <<>>, <<"a">>, <<"b">>, <<"b", "A", "a">>, <<"a", "a", "a">>,
      <<"KELVIN", "a">>, <<"IDOT", "a", "a", "b">> }

Patterns == { <<"a">>, <<"A">>, <<"a", "a">>, <<"KELVIN">> }

FlagOrder == <<"i", "n", "v", "f", "c">>

Cluster(S) == LET In(x) == x \in S IN <<"-">> \o SelectSeq(FlagOrder, In)

ScanArgs(S, pat) ==
    (IF S = {} THEN <<>> ELSE <<Cluster(S)>>) \o <<pat, P_f, P_g>>

FileContents == UNION {[1..n -> Lines] : n \in 0..MaxLines}

ScanFs(content, err) ==
    (P_f :> FileNode(content, err))
    @@ (P_g :> FileNode(<< <<"A", "b">>, <<"b">>, <<"a">> >>, "none"))

InitScan ==
    /\ \E S \in SUBSET {"i", "n", "v", "f", "c"}, pat \in Patterns :
          args = ScanArgs(S, pat)
    /\ \/ \E content \in FileContents, err \in {"none", "read"} :
             fs = ScanFs(content, err)
       \/ fs = ScanFs(<<>>, "open")
    /\ pc = "start"
    /\ cfg = DefaultConfig
    /\ ti = 1
    /\ files = <<>>
    /\ fi = 1
    /\ stdout = <<>>
    /\ stderr = <<>>
    /\ fsops = <<>>

NextScan == ParseArgs \/ GatherTarget \/ ScanFile

SpecScan == InitScan /\ [][NextScan]_vars

(* ======================================================================= *)
(* Properties                                                              *)
(* ======================================================================= *)
Range(q) == {q[k] : k \in 1..Len(q)}

IsPrefixOf(a, b) == Len(a) <= Len(b) /\ SubSeq(b, 1, Len(a)) = a

\* n occurs in h as a contiguous run of characters
Substring(h, n) ==
    \E k \in 0..(Len(h) - Len(n)) : SubSeq(h, k + 1, k + Len(n)) = n

Fold(s, ci) == IF ci THEN to_lowercase(s) ELSE s

\* the match predicate as the specification words it
IsMatch(line, c) ==
    Substring(Fold(line, c.case_insensitive), Fold(c.pattern, c.case_insensitive))

Emitted(line, c) == IsMatch(line, c) # c.invert_match

\* the lines a reader over path p yields before it ends or fails
LinesRead(p) ==
    LET n == Lookup(fs, p)
    IN  IF n.kind = "file" /\ n.err # "open" THEN n.lines ELSE <<>>

Fails(p) ==
    LET n == Lookup(fs, p) IN n.kind # "file" \/ n.err # "none"

OpenedPaths ==
    LET IsOpen(o) == o.op = "open"
        ops == SelectSeq(fsops, IsOpen)
    IN  [k \in 1..Len(ops) |-> ops[k].path]

Parsed == pc \notin {"start", "abort"}

UsageCase == cfg.help \/ cfg.pattern = <<>> \/ cfg.targets = <<>>

(* ----------------------------------------------------------------------- *)
(* C1: when the parsed configuration has help requested, an empty pattern  *)
(* or no targets, the run prints the usage text exactly once, touches no   *)
(* file or directory, writes nothing to the error stream and ends normally *)
(* ----------------------------------------------------------------------- *)
C1_UsageOnly ==
    (Parsed /\ UsageCase) =>
        /\ fsops = <<>>
        /\ files = <<>>
        /\ stderr = <<>>
        /\ pc \in {"parsed", "done"}
        /\ stdout = IF pc = "done" THEN <<HELP>> ELSE <<>>

C1_Witness ==
    /\ pc = "done"
    /\ cfg.help
    /\ cfg.pattern # <<>>
    /\ cfg.targets # <<>>
    /\ stdout = <<HELP>>

(* ----------------------------------------------------------------------- *)
(* C2: the scan loop attempts every file of the expanded list exactly once *)
(* in list order and the process does not crash; every failing file gives  *)
(* exactly one line "Failed to read <path>: <reason>" on the error stream  *)
(* ----------------------------------------------------------------------- *)
RECURSIVE FailureLines(_)
FailureLines(fl) ==
    IF fl = <<>> THEN <<>>
    ELSE LET p == Head(fl)
             n == Lookup(fs, p)
             reason == IF OpenError(n) # "none" THEN OpenError(n) ELSE ReadError(n)
         IN  (IF Fails(p) THEN <<FAILED \o p \o <<":", " ", reason>> >> ELSE <<>>)
             \o FailureLines(Tail(fl))

C2_ScanLoopCompletes ==
    /\ pc # "panic"
    /\ pc \in {"scan", "done"} =>
          /\ OpenedPaths = SubSeq(files, 1, fi - 1)
          /\ stderr = FailureLines(SubSeq(files, 1, fi - 1))
    /\ (pc = "done" /\ ~UsageCase) => fi = Len(files) + 1

(* ----------------------------------------------------------------------- *)
(* C3: a line of a readable file is emitted iff isMatch XOR invertMatch,   *)
(* so the scanned files contribute exactly one output line per line whose  *)
(* match result differs from invertMatch                                   *)
(* ----------------------------------------------------------------------- *)
EmittedPositions(p, c) == {n \in 1..Len(LinesRead(p)) : Emitted(LinesRead(p)[n], c)}

RECURSIVE EmittedCount(_, _)
EmittedCount(fl, c) ==
    IF fl = <<>> THEN 0
    ELSE Cardinality(EmittedPositions(Head(fl), c)) + EmittedCount(Tail(fl), c)

C3_EmittedIffMatchXorInvert ==
    (pc \in {"scan", "done", "panic"} /\ files # <<>>) =>
        /\ Len(stdout) = EmittedCount(SubSeq(files, 1, fi - 1), cfg)
        /\ \A p \in Range(files) :
              EmittedPositions(p, [cfg EXCEPT !.invert_match = TRUE])
                  = (1..Len(LinesRead(p)))
                        \ EmittedPositions(p, [cfg EXCEPT !.invert_match = FALSE])

(* ----------------------------------------------------------------------- *)
(* C4 as stated: with an empty pattern as first operand and at least one   *)
(* target the files are scanned, every line being emitted in non-inverted  *)
(* mode and none in inverted mode                                          *)
(* ----------------------------------------------------------------------- *)
RECURSIVE TotalLines(_)
TotalLines(fl) ==
    IF fl = <<>> THEN 0 ELSE Len(LinesRead(Head(fl))) + TotalLines(Tail(fl))

C4_EmptyPatternScans ==
    (pc = "done" /\ ~cfg.help /\ cfg.pattern = <<>> /\ cfg.targets # <<>>) =>
        /\ ti = Len(cfg.targets) + 1
        /\ OpenedPaths = files
        /\ Len(stdout) = IF cfg.invert_match THEN 0 ELSE TotalLines(files)

(* ----------------------------------------------------------------------- *)
(* C4 amended: the match predicate holds of every line for the empty       *)
(* pattern, so search_file would emit every line in non-inverted mode and  *)
(* none in inverted mode; but a run whose pattern is empty never scans: it *)
(* prints the usage text and touches no file                               *)
(* ----------------------------------------------------------------------- *)
FilePaths == {p \in DOMAIN fs : fs[p].kind = "file" /\ fs[p].err = "none"}

C4_EmptyPatternMatchesButUsage ==
    /\ \A p \in FilePaths, ci \in BOOLEAN :
          /\ \A k \in 1..Len(fs[p].lines) : contains(fs[p].lines[k], <<>>, ci)
          /\ LET c == [cfg EXCEPT !.pattern = <<>>, !.case_insensitive = ci]
                 r == search_file(fs, p, c)
             IN  /\ r.status = "ok"
                 /\ Len(r.out) = IF c.invert_match THEN 0 ELSE Len(fs[p].lines)
    /\ (Parsed /\ cfg.pattern = <<>>) =>
          /\ fsops = <<>>
          /\ files = <<>>
          /\ pc = "done" => stdout = <<HELP>>

C4_Witness ==
    /\ pc = "done"
    /\ ~cfg.help
    /\ cfg.pattern = <<>>
    /\ cfg.targets # <<>>
    /\ cfg.targets[1] \in FilePaths
    /\ fs[cfg.targets[1]].lines # <<>>
    /\ stdout = <<HELP>>

(* ----------------------------------------------------------------------- *)
(* C5: parse_args returns a configuration for every token list; a cluster  *)
(* character other than i n v r f c h - is ignored                         *)
(* ----------------------------------------------------------------------- *)
C5_ParseAlwaysSucceeds == pc # "abort"

(* ----------------------------------------------------------------------- *)
(* C6: for every token list the operands are the tokens that are neither   *)
(* -h/--help nor a dash followed by at least one character, in order; the  *)
(* first is the pattern, the rest are the targets; none: both stay empty   *)
(* ----------------------------------------------------------------------- *)
IsOperand(a) ==
    /\ a # T_h
    /\ a # T_help
    /\ ~(Len(a) >= 2 /\ a[1] = "-")

OperandsOf(as) == SelectSeq(as, IsOperand)

C6_OperandsBecomePatternAndTargets ==
    pc # "start" =>
        LET ops == OperandsOf(args)
        IN  IF ops = <<>> THEN cfg.pattern = <<>> /\ cfg.targets = <<>>
            ELSE cfg.pattern = ops[1] /\ cfg.targets = SubSeq(ops, 2, Len(ops))

(* ----------------------------------------------------------------------- *)
(* C7: every output line is [path ": "][n ": "]body, the file name before  *)
(* the number, n the 1-based position of the line among all lines read of  *)
(* its own file; lines come out in file order and, within a file, in the   *)
(* order read                                                              *)
(* ----------------------------------------------------------------------- *)
Decimal(n) ==
    LET D == [d \in 0..9 |-> <<"0", "1", "2", "3", "4", "5", "6", "7", "8", "9">>[d + 1]]
    IN  IF n < 10 THEN <<D[n]>> ELSE <<D[n \div 10], D[n % 10]>>

Prefix(p, n, c) ==
    (IF c.show_filenames THEN p \o <<":", " ">> ELSE <<>>)
    \o (IF c.show_line_numbers THEN Decimal(n) \o <<":", " ">> ELSE <<>>)

IsMarker(x) == x \in {"ESC[31m", "ESC[0m"}

StripMarkers(t) == LET Plain(x) == ~IsMarker(x) IN SelectSeq(t, Plain)

RECURSIVE ExpectedFrom(_, _, _)
ExpectedFrom(p, n, c) ==
    IF n > Len(LinesRead(p)) THEN <<>>
    ELSE (IF Emitted(LinesRead(p)[n], c)
          THEN <<[pre |-> Prefix(p, n, c), line |-> LinesRead(p)[n]]>>
          ELSE <<>>) \o ExpectedFrom(p, n + 1, c)

RECURSIVE ExpectedAll(_, _)
ExpectedAll(fl, c) ==
    IF fl = <<>> THEN <<>>
    ELSE ExpectedFrom(Head(fl), 1, c) \o ExpectedAll(Tail(fl), c)

BodyOf(o, e) == SubSeq(o, Len(e.pre) + 1, Len(o))

Scanning == pc \in {"scan", "done", "panic"} /\ files # <<>>

C7_OutputFormat ==
    Scanning =>
        LET E == ExpectedAll(files, cfg)
        IN  /\ Len(stdout) <= Len(E)
            /\ \A k \in 1..Len(stdout) :
                  /\ IsPrefixOf(E[k].pre, stdout[k])
                  /\ StripMarkers(BodyOf(stdout[k], E[k])) = E[k].line
            /\ pc # "panic" =>
                  Len(stdout) = Len(ExpectedAll(SubSeq(files, 1, fi - 1), cfg))

C7_Witness ==
    /\ pc = "done"
    /\ cfg.show_filenames
    /\ cfg.show_line_numbers
    /\ cfg.invert_match
    /\ Len(stdout) >= 2
    /\ IsPrefixOf(<<"f", ":", " ", "2", ":", " ">>, stdout[1])
    /\ \E k \in 2..Len(stdout) : IsPrefixOf(<<"g", ":", " ", "1", ":", " ">>, stdout[k])

(* ----------------------------------------------------------------------- *)
(* C8: for every line and non-empty pattern, in both case modes, highlight *)
(* returns without failing the original line with exactly the leftmost     *)
(* non-overlapping occurrences of the folded pattern wrapped in the marker *)
(* ----------------------------------------------------------------------- *)
RECURSIVE SpansOf(_)
SpansOf(t) ==
    IF t = <<>> THEN <<>>
    ELSE IF Head(t) = "ESC[31m"
    THEN LET rest == Tail(t)
             m == CHOOSE j \in 1..Len(rest) :
                     rest[j] = "ESC[0m" /\ \A i \in 1..(j - 1) : rest[i] # "ESC[0m"
         IN  <<SubSeq(rest, 1, m - 1)>> \o SpansOf(SubSeq(rest, m + 1, Len(rest)))
    ELSE SpansOf(Tail(t))

RECURSIVE Occurrences(_, _, _)
Occurrences(h, n, k) ==
    IF k + Len(n) - 1 > Len(h) THEN 0
    ELSE IF SubSeq(h, k, k + Len(n) - 1) = n THEN 1 + Occurrences(h, n, k + Len(n))
    ELSE Occurrences(h, n, k + 1)

HighlightExact(line, pattern, ci) ==
    LET h == highlight(line, Fold(pattern, ci), ci)
        sp == SpansOf(h.text)
    IN  /\ ~h.panic
        /\ StripMarkers(h.text) = line
        /\ \A j \in 1..Len(sp) : Fold(sp[j], ci) = Fold(pattern, ci)
        /\ Len(sp) = Occurrences(Fold(line, ci), Fold(pattern, ci), 1)

\* stated of the lines highlight has been called on: the matching lines of the
\* files attempted so far, in a run with -c and without -v
C8_HighlightExact ==
    (Scanning /\ cfg.colored /\ ~cfg.invert_match) =>
        /\ pc # "panic"
        /\ \A j \in 1..(fi - 1) : \A k \in 1..Len(LinesRead(files[j])) :
              IsMatch(LinesRead(files[j])[k], cfg) =>
                  HighlightExact(LinesRead(files[j])[k], cfg.pattern,
                                 cfg.case_insensitive)

(* ----------------------------------------------------------------------- *)
(* C9: the body of an emitted line is the original line verbatim, without  *)
(* marker, when colorOutput is false, or invertMatch is true, or the line  *)
(* does not match, or the pattern is empty; a marker appears only when     *)
(* colorOutput is true, the line matches and invertMatch is false          *)
(* ----------------------------------------------------------------------- *)
HasMarker(t) == \E j \in 1..Len(t) : IsMarker(t[j])

C9_VerbatimUnlessHighlighted ==
    /\ \A p \in DOMAIN fs, ci \in BOOLEAN : \A k \in 1..Len(fs[p].lines) :
          highlight(fs[p].lines[k], <<>>, ci) = [panic |-> FALSE, text |-> fs[p].lines[k]]
    /\ Scanning =>
          LET E == ExpectedAll(files, cfg)
          IN  /\ Len(stdout) <= Len(E)
              /\ \A k \in 1..Len(stdout) :
                    /\ HasMarker(stdout[k]) =>
                          cfg.colored /\ ~cfg.invert_match /\ IsMatch(E[k].line, cfg)
                    /\ (~cfg.colored \/ cfg.invert_match \/ ~IsMatch(E[k].line, cfg)) =>
                          stdout[k] = E[k].pre \o E[k].line

C9_Witness ==
    /\ pc = "done"
    /\ cfg.colored
    /\ cfg.invert_match
    /\ \E k \in 1..Len(stdout) : stdout[k] = <<"b", "A", "a">>
    /\ cfg.pattern = <<"a", "a">>

(* ----------------------------------------------------------------------- *)
(* C10: the expanded list is the concatenation, in target order, of one    *)
(* segment per target: the target itself when not recursive or when it is  *)
(* not a directory, else exactly the regular files reachable under it,     *)
(* each once, no directory among them                                      *)
(* ----------------------------------------------------------------------- *)
\* the directories on the way from t down to p, t included, p excluded
Ancestors(t, p) ==
    {SubSeq(p, 1, m) : m \in {j \in Len(t)..(Len(p) - 1) : p[j + 1] = "/"}}

ReachableFiles(t) ==
    {p \in DOMAIN fs :
        /\ fs[p].kind = "file"
        /\ Len(p) > Len(t)
        /\ SubSeq(p, 1, Len(t)) = t
        /\ p[Len(t) + 1] = "/"
        /\ \A q \in Ancestors(t, p) : Lookup(fs, q).kind = "dir" /\ Lookup(fs, q).readable}

SegmentOk(seg, t) ==
    IF cfg.recursive /\ Lookup(fs, t).kind = "dir"
    THEN /\ Range(seg) = ReachableFiles(t)
         /\ Len(seg) = Cardinality(ReachableFiles(t))
    ELSE seg = <<t>>

RECURSIVE IsExpansion(_, _)
IsExpansion(fl, ts) ==
    IF ts = <<>> THEN fl = <<>>
    ELSE \E k \in 0..Len(fl) :
            /\ SegmentOk(SubSeq(fl, 1, k), Head(ts))
            /\ IsExpansion(SubSeq(fl, k + 1, Len(fl)), Tail(ts))

C10_ExpandedFileList ==
    Parsed =>
        /\ IsExpansion(files, SubSeq(cfg.targets, 1, ti - 1))
        /\ Scanning => ti = Len(cfg.targets) + 1

C10_Witness ==
    /\ pc = "done"
    /\ cfg.recursive
    /\ Len(cfg.targets) = 1
    /\ Lookup(fs, cfg.targets[1]).kind = "dir"
    /\ Len(files) = 2
    /\ \E q \in DOMAIN fs : fs[q].kind = "dir" /\ Len(q) > 1

====
